---- MODULE Spec2Model ----
(***************************************************************************)
(* GELF logging handlers (graylog/handlers.py, udp.py, tcp.py, tls.py,     *)
(* http.py): the event normalizer, the document packer, the UDP chunk      *)
(* codec with its three overflow policies, and the handlers' constructors. *)
(*                                                                         *)
(* Bytes and characters are string tokens; a Python str or bytes object is *)
(* a sequence of tokens.  One token is one unit of len().  A Python value  *)
(* is a record [t, v]: its type tag and its tokens.                        *)
(***************************************************************************)
EXTENDS Integers, Sequences, FiniteSets, TLC

\* ------------------------------------------------------------------ bounds
\* chunk_size ranges over 1..MaxChunkSize
MaxChunkSize == 3
\* random.randint draws the message identifier from 0..MaxMessageId
MaxMessageId == 1
\* message lengths are taken within MaxSlack of each boundary (0, one chunk,
\* the 128-chunk ceiling)
MaxSlack == 2

\* ------------------------------------------------------- program constants
GELF_MAX_CHUNK_NUMBER == 128

\* ------------------------------------------------------------ Python values
NoneV == [t |-> "none", v |-> <<>>]
Str(s) == [t |-> "str", v |-> s]
Num(n) == [t |-> "num", v |-> <<ToString(n)>>]
Bool(b) == [t |-> "bool", v |-> IF b THEN <<"True">> ELSE <<"False">>]

\* Python truthiness (if x: ...)
Truthy(x) ==
  CASE x.t = "none" -> FALSE
    [] x.t = "str" -> x.v # <<>>
    [] x.t = "bool" -> x.v = <<"True">>
    [] OTHER -> x.v # <<"0">>

Min(a, b) == IF a <= b THEN a ELSE b
Max(a, b) == IF a >= b THEN a ELSE b
Range(s) == {s[i] : i \in DOMAIN s}

\* s[:n] of Python for any integer n (a negative n counts from the end)
PySliceTo(s, n) ==
  IF n >= 0 THEN SubSeq(s, 1, Min(n, Len(s)))
  ELSE SubSeq(s, 1, Max(Len(s) + n, 0))

\* ------------------------------------------------------------------- zlib
\* zlib.compress: the two header bytes 0x78 0x9c, the deflate body (stored
\* block), and the checksum trailer.  0x9c is not valid UTF-8.
ZlibHeader == <<"x78", "x9c">>
Adler(b) == "adler" \o ToString(Len(b) % 7)
zlib_compress(b) == ZlibHeader \o b \o <<Adler(b)>>
\* zlib.decompress: [err, val]; zlib.error on anything that is no zlib stream
zlib_decompress(m) ==
  IF Len(m) >= 3 /\ SubSeq(m, 1, 2) = ZlibHeader
     /\ m[Len(m)] = Adler(SubSeq(m, 3, Len(m) - 1))
  THEN [err |-> "none", val |-> SubSeq(m, 3, Len(m) - 1)]
  ELSE [err |-> "zlib.error", val |-> <<>>]

\* bytes.decode("UTF-8") succeeds
Utf8Valid(m) == \A i \in DOMAIN m : m[i] \notin {"x9c", "xff"}

\* ------------------------------------------------------------------- JSON
Quote == "\""
Backslash == "\\"
\* the null byte / the character U+0000
Nul == "x00"
\* what json.dumps (ensure_ascii) writes for U+0000
NulEscape == <<Backslash, "u", "0", "0", "0", "0">>

\* json.dumps of the characters of a string: a quote and U+0000 are escaped
RECURSIVE JsonEscape(_)
JsonEscape(s) ==
  IF Len(s) = 0 THEN <<>>
  ELSE IF Len(s) = 1
  THEN (IF s[1] = Quote THEN <<Backslash, Quote>>
        ELSE IF s[1] = Nul THEN NulEscape ELSE s)
  ELSE LET h == Len(s) \div 2
       IN JsonEscape(SubSeq(s, 1, h)) \o JsonEscape(SubSeq(s, h + 1, Len(s)))

\* json.loads of the characters between two quotes
JsonUnescape(b) ==
  LET starts(i) == b[i] = Backslash /\ i < Len(b) /\ b[i + 1] = "u"
      dropped(i) ==
        \/ b[i] = Backslash
        \/ \E p \in (i - 5)..(i - 2) : p >= 1 /\ starts(p)
      idx == SelectSeq([i \in 1..Len(b) |-> i], LAMBDA i : ~dropped(i))
  IN [j \in 1..Len(idx) |->
        IF idx[j] > 1 /\ starts(idx[j] - 1) THEN Nul ELSE b[idx[j]]]

\* BaseGELFHandler._sanitize_to_unicode on one value: a bool becomes str(obj)
_sanitize_to_unicode(x) == IF x.t = "bool" THEN Str(x.v) ELSE x

\* json.dumps of one (sanitized) value
JsonValue(x) ==
  CASE x.t = "str" -> <<Quote>> \o JsonEscape(x.v) \o <<Quote>>
    [] x.t = "none" -> <<"null">>
    [] x.t = "bool" -> IF x.v = <<"True">> THEN <<"true">> ELSE <<"false">>
    [] OTHER -> x.v

JsonMember(k, x) == <<Quote>> \o k \o <<Quote, ":">> \o JsonValue(x)

\* keys of the base GELF document, in the order the dict literal inserts them
BaseKeys == << <<"version">>, <<"host">>, <<"short_message">>, <<"timestamp">>,
               <<"level">>, <<"facility">> >>

RECURSIVE SetToSeq(_)
SetToSeq(S) ==
  IF S = {} THEN <<>>
  ELSE LET x == CHOOSE y \in S : TRUE IN <<x>> \o SetToSeq(S \ {x})

\* the order json.dumps walks the dict in: the base keys, then the others
KeyOrder(d) ==
  SelectSeq(BaseKeys, LAMBDA k : k \in DOMAIN d)
    \o SetToSeq(DOMAIN d \ Range(BaseKeys))

RECURSIVE JsonMembers(_, _, _)
JsonMembers(d, ks, i) ==
  IF i > Len(ks) THEN <<>>
  ELSE (IF i > 1 THEN <<",">> ELSE <<>>)
         \o JsonMember(ks[i], d[ks[i]]) \o JsonMembers(d, ks, i + 1)

\* BaseGELFHandler._pack_gelf_dict: sanitize, then compact JSON, then UTF-8
_pack_gelf_dict(gelf_dict) ==
  LET d == [k \in DOMAIN gelf_dict |-> _sanitize_to_unicode(gelf_dict[k])]
  IN <<"{">> \o JsonMembers(d, KeyOrder(d), 1) \o <<"}">>

\* the first unescaped quote after position i, 0 when there is none
NextQuote(m, i) ==
  LET S == {j \in (i + 1)..Len(m) : m[j] = Quote /\ m[j - 1] # Backslash}
  IN IF S = {} THEN 0 ELSE CHOOSE j \in S : \A k \in S : j <= k

\* json.loads of the members from position i on: [ok, d]
RECURSIVE JsonParseMembers(_, _, _)
JsonParseMembers(m, i, d) ==
  IF i > Len(m) \/ m[i] # Quote THEN [ok |-> FALSE, d |-> d]
  ELSE LET j == NextQuote(m, i)
       IN IF j = 0 \/ j + 2 > Len(m) \/ m[j + 1] # ":" THEN [ok |-> FALSE, d |-> d]
          ELSE LET key == SubSeq(m, i + 1, j - 1)
                   isStr == m[j + 2] = Quote
                   e == IF isStr THEN NextQuote(m, j + 2) ELSE j + 2
                   val == IF isStr THEN Str(JsonUnescape(SubSeq(m, j + 3, e - 1)))
                          ELSE IF m[j + 2] = "null" THEN NoneV
                          ELSE [t |-> "num", v |-> <<m[j + 2]>>]
                   d2 == (key :> val) @@ d
               IN IF e = 0 \/ e + 1 > Len(m) \/ m[j + 2] \in {",", ":", "{", "}"}
                  THEN [ok |-> FALSE, d |-> d]
                  ELSE IF m[e + 1] = "}" /\ e + 1 = Len(m) THEN [ok |-> TRUE, d |-> d2]
                  ELSE IF m[e + 1] = "," THEN JsonParseMembers(m, e + 2, d2)
                  ELSE [ok |-> FALSE, d |-> d]

\* json.loads(message): [ok, d]; not ok is a JSONDecodeError
json_loads(m) ==
  IF Len(m) < 2 \/ m[1] # "{" THEN [ok |-> FALSE, d |-> <<>>]
  ELSE IF Len(m) = 2 THEN [ok |-> m[2] = "}", d |-> <<>>]
  ELSE JsonParseMembers(m, 2, <<>>)

\* ------------------------------------------------------------ chunk codec
\* what chunk_message and send do, in order: warnings issued, chunks yielded,
\* datagrams handed to the socket
Warn(cat) == [ev |-> "warn", cat |-> cat, data |-> <<>>]
Chunk(b) == [ev |-> "chunk", cat |-> "", data |-> b]
Datagram(b) == [ev |-> "send", cat |-> "", data |-> b]

NoRaise == "none"
Outcome(events, raised) == [events |-> events, raised |-> raised]

\* mutant: the chunk count rounded down
_message_chunk_number_Floor(chunk_size, message) == Len(message) \div chunk_size

\* BaseGELFChunker._message_chunk_number: int(math.ceil(len(message) * 1.0 / chunk_size))
_message_chunk_number(chunk_size, message) ==
  LET q == Len(message) \div chunk_size
  IN IF q * chunk_size = Len(message) THEN q ELSE q + 1

\* struct.pack("Q", n): eight bytes, least significant first
RECURSIVE PackBytes(_, _)
PackBytes(n, k) ==
  IF k = 0 THEN <<>> ELSE <<ToString(n % 256)>> \o PackBytes(n \div 256, k - 1)

\* struct.pack("B", n) raises struct.error outside 0..255
ByteOk(n) == n \in 0..255

ChunkMagic == <<"x1e", "x0f">>
ChunkHeaderLen == 12

\* BaseGELFChunker._encode
_encode(message_id, chunk_seq, total_chunks, chunk) ==
  ChunkMagic \o PackBytes(message_id, 8) \o <<ToString(chunk_seq)>>
    \o <<ToString(total_chunks)>> \o chunk

\* len(range(0, n, step))
RangeCount(n, step) == IF n <= 0 THEN 0 ELSE (n - 1) \div step + 1

\* BaseGELFChunker._gen_gelf_chunks: one chunk per slice message[i: i + chunk_size],
\* i in range(0, len(message), chunk_size); the generator ends in struct.error at
\* the first chunk whose sequence or total does not fit one byte
_gen_gelf_chunks(chunk_size, message, message_id) ==
  LET total_chunks == _message_chunk_number(chunk_size, message)
      slices == RangeCount(Len(message), chunk_size)
      slice(i) == SubSeq(message, (i - 1) * chunk_size + 1,
                         Min(i * chunk_size, Len(message)))
      good == IF ByteOk(total_chunks) THEN Min(slices, 256) ELSE 0
  IN Outcome([i \in 1..good |->
                Chunk(_encode(message_id, i - 1, total_chunks, slice(i)))],
             IF good = slices THEN NoRaise ELSE "struct.error")

\* mutant: no ceiling check
BaseGELFChunker_chunk_message_NoCeiling(chunker, message, message_id) ==
  _gen_gelf_chunks(chunker.chunk_size, message, message_id)

\* BaseGELFChunker.chunk_message: silently drop
BaseGELFChunker_chunk_message(chunker, message, message_id) ==
  IF _message_chunk_number(chunker.chunk_size, message) > GELF_MAX_CHUNK_NUMBER
  THEN Outcome(<<>>, NoRaise)
  ELSE _gen_gelf_chunks(chunker.chunk_size, message, message_id)

\* mutant: the return after the warning is missing
GELFWarningChunker_chunk_message_NoReturn(chunker, message, message_id) ==
  IF _message_chunk_number(chunker.chunk_size, message) > GELF_MAX_CHUNK_NUMBER
  THEN Outcome(<<Warn("GELFChunkOverflowWarning")>>
                 \o _gen_gelf_chunks(chunker.chunk_size, message, message_id).events,
               NoRaise)
  ELSE _gen_gelf_chunks(chunker.chunk_size, message, message_id)

\* GELFWarningChunker.chunk_message: warn, then drop
GELFWarningChunker_chunk_message(chunker, message, message_id) ==
  IF _message_chunk_number(chunker.chunk_size, message) > GELF_MAX_CHUNK_NUMBER
  THEN Outcome(<<Warn("GELFChunkOverflowWarning")>>, NoRaise)
  ELSE _gen_gelf_chunks(chunker.chunk_size, message, message_id)

\* SYSLOG_LEVELS.get(levelno, levelno)
SYSLOG_LEVELS(levelno) ==
  CASE levelno = 50 -> 2
    [] levelno = 40 -> 3
    [] levelno = 30 -> 4
    [] levelno = 20 -> 6
    [] levelno = 10 -> 7
    [] OTHER -> levelno

K(name) == <<name>>
\* "_%s" % key
Underscore(key) == <<"_">> \o key

\* the packed bytes as the chunker's gelf_packer and compress flag produce them
TruncPack(chunker, d) ==
  IF chunker.compress THEN zlib_compress(_pack_gelf_dict(d)) ELSE _pack_gelf_dict(d)

Truncation(raised, packed, attempts, short, free) ==
  [raised |-> raised, packed |-> packed, attempts |-> attempts, short |-> short,
   free |-> free]

\* the for-clip loop of gen_chunk_overflow_gelf_log: clip runs from
\* gelf_chunks_free down to 0; its else branch raises the failure warning
RECURSIVE TruncationLoop(_, _, _, _, _, _)
TruncationLoop(chunker, simplified, truncated, clip, attempts, free) ==
  IF clip < 0
  THEN Truncation("GELFTruncationFailureWarning", <<>>, attempts, truncated, free)
  ELSE LET packed_message ==
             TruncPack(chunker, (K("short_message") :> Str(truncated)) @@ simplified)
       IN IF _message_chunk_number(chunker.chunk_size, packed_message)
               <= GELF_MAX_CHUNK_NUMBER
          THEN Truncation(NoRaise, packed_message, attempts + 1, truncated, free)
          ELSE TruncationLoop(chunker, simplified,
                              PySliceTo(truncated, 0 - chunker.chunk_size),
                              clip - 1, attempts + 1, free)

\* mutant: the level of the original kept
SimplifiedDict_KeepLevel(gelf_dict) ==
  (K("version") :> gelf_dict[K("version")])
    @@ (K("host") :> gelf_dict[K("host")])
    @@ (K("short_message") :> Str(<<>>))
    @@ (K("timestamp") :> gelf_dict[K("timestamp")])
    @@ (K("level") :> gelf_dict[K("level")])
    @@ (K("facility") :> gelf_dict[K("facility")])
    @@ (Underscore(K("chunk_overflow")) :> Bool(TRUE))

\* the simplified GELF dictionary the truncated message is based on
SimplifiedDict(gelf_dict) ==
  (K("version") :> gelf_dict[K("version")])
    @@ (K("host") :> gelf_dict[K("host")])
    @@ (K("short_message") :> Str(<<>>))
    @@ (K("timestamp") :> gelf_dict[K("timestamp")])
    @@ (K("level") :> Num(SYSLOG_LEVELS(40)))
    @@ (K("facility") :> gelf_dict[K("facility")])
    @@ (Underscore(K("chunk_overflow")) :> Bool(TRUE))

\* mutant: the first candidate is the whole short_message
TruncateFrom_NoSlice(chunker, short_message, simplified_gelf_dict, gelf_chunks_free) ==
  TruncationLoop(chunker, simplified_gelf_dict, short_message,
                 gelf_chunks_free, 0, gelf_chunks_free)

\* gen_chunk_overflow_gelf_log from the parsed dictionary on: the estimate of
\* the chunks left, the first candidate, the loop
TruncateFrom(chunker, short_message, simplified_gelf_dict, gelf_chunks_free) ==
  TruncationLoop(chunker, simplified_gelf_dict,
                 PySliceTo(short_message, chunker.chunk_size * gelf_chunks_free),
                 gelf_chunks_free, 0, gelf_chunks_free)

\* mutant: the estimate of the chunks left is one short
TruncateDict_EstimateShort(chunker, gelf_dict) ==
  IF ~({K("version"), K("host"), K("timestamp"), K("facility"),
        K("short_message")} \subseteq DOMAIN gelf_dict)
  THEN Truncation("KeyError", <<>>, 0, <<>>, 0)
  ELSE IF gelf_dict[K("short_message")].t # "str"
  THEN Truncation("TypeError", <<>>, 0, <<>>, 0)
  ELSE TruncateFrom(chunker, gelf_dict[K("short_message")].v,
                    SimplifiedDict(gelf_dict),
                    GELF_MAX_CHUNK_NUMBER - 1
                      - _message_chunk_number(
                          chunker.chunk_size,
                          TruncPack(chunker, SimplifiedDict(gelf_dict))))

TruncateDict(chunker, gelf_dict) ==
  IF ~({K("version"), K("host"), K("timestamp"), K("facility"),
        K("short_message")} \subseteq DOMAIN gelf_dict)
  THEN Truncation("KeyError", <<>>, 0, <<>>, 0)
  ELSE IF gelf_dict[K("short_message")].t # "str"
  THEN Truncation("TypeError", <<>>, 0, <<>>, 0)
  ELSE TruncateFrom(chunker, gelf_dict[K("short_message")].v,
                    SimplifiedDict(gelf_dict),
                    GELF_MAX_CHUNK_NUMBER
                      - _message_chunk_number(
                          chunker.chunk_size,
                          TruncPack(chunker, SimplifiedDict(gelf_dict))))

TruncateParsed(chunker, parsed) ==
  IF ~parsed.ok THEN Truncation("JSONDecodeError", <<>>, 0, <<>>, 0)
  ELSE TruncateDict(chunker, parsed.d)

TruncateBytes(chunker, z) ==
  IF z.err # NoRaise THEN Truncation(z.err, <<>>, 0, <<>>, 0)
  ELSE IF ~Utf8Valid(z.val) THEN Truncation("UnicodeDecodeError", <<>>, 0, <<>>, 0)
  ELSE TruncateParsed(chunker, json_loads(z.val))

\* GELFTruncatingChunker.gen_chunk_overflow_gelf_log: decompress, decode,
\* json.loads, simplify, truncate
gen_chunk_overflow_gelf_log(chunker, raw_message) ==
  TruncateBytes(chunker, IF chunker.compress THEN zlib_decompress(raw_message)
                         ELSE [err |-> NoRaise, val |-> raw_message])

AfterWarning(g) == Outcome(<<Warn("GELFChunkOverflowWarning")>> \o g.events, g.raised)

\* chunk_message after gen_chunk_overflow_gelf_log returned or raised t
ChunkTruncated(chunker, t, message_id) ==
  IF t.raised = "GELFTruncationFailureWarning"
  THEN Outcome(<<Warn("GELFChunkOverflowWarning"),
                 Warn("GELFTruncationFailureWarning")>>, NoRaise)
  ELSE IF t.raised # NoRaise
  THEN Outcome(<<Warn("GELFChunkOverflowWarning")>>, t.raised)
  ELSE AfterWarning(_gen_gelf_chunks(chunker.chunk_size, t.packed, message_id))

\* GELFTruncatingChunker.chunk_message: warn, truncate, chunk the replacement
GELFTruncatingChunker_chunk_message(chunker, message, message_id) ==
  IF _message_chunk_number(chunker.chunk_size, message) > GELF_MAX_CHUNK_NUMBER
  THEN ChunkTruncated(chunker, gen_chunk_overflow_gelf_log(chunker, message),
                      message_id)
  ELSE _gen_gelf_chunks(chunker.chunk_size, message, message_id)

\* gelf_chunker.chunk_message, dispatched on the chunker's class
chunk_message(chunker, message, message_id) ==
  CASE chunker.policy = "BaseGELFChunker" ->
         BaseGELFChunker_chunk_message(chunker, message, message_id)
    [] chunker.policy = "GELFWarningChunker" ->
         GELFWarningChunker_chunk_message(chunker, message, message_id)
    [] chunker.policy = "GELFTruncatingChunker" ->
         GELFTruncatingChunker_chunk_message(chunker, message, message_id)

\* GELFUDPHandler.send: a message shorter than chunk_size goes out whole, any
\* other is chunked and every chunk yielded is sent as it is yielded
SendChunks(r) ==
  Outcome([i \in DOMAIN r.events |->
             IF r.events[i].ev = "chunk" THEN Datagram(r.events[i].data)
             ELSE r.events[i]],
          r.raised)

GELFUDPHandler_send(gelf_chunker, s, message_id) ==
  IF Len(s) < gelf_chunker.chunk_size
  THEN Outcome(<<Datagram(s)>>, NoRaise)
  ELSE SendChunks(chunk_message(gelf_chunker, s, message_id))

\* ------------------------------------------------------- event normalizer
\* the attributes LogRecord.__init__ sets (record.__dict__ of a record that
\* carries no extra)
LogRecordAttrs ==
  {K("name"), K("msg"), K("args"), K("levelname"), K("levelno"), K("pathname"),
   K("filename"), K("module"), K("exc_info"), K("exc_text"), K("stack_info"),
   K("lineno"), K("funcName"), K("created"), K("msecs"), K("relativeCreated"),
   K("thread"), K("threadName"), K("processName"), K("process")}

\* record.__dict__: the standard attributes and the caller's extra
RecordDict(record) ==
  record.extra
    @@ [k \in LogRecordAttrs |->
          CASE k = K("name") -> Str(record.name)
            [] k = K("levelno") -> Num(record.levelno)
            [] k = K("created") -> Num(record.created)
            [] k = K("exc_text") -> record.exc_text
            [] k = K("processName") -> record.processName
            [] k \in {K("stack_info"), K("exc_info")} -> NoneV
            [] OTHER -> Str(k)]

\* skip_list of _add_extra_fields
skip_list ==
  {K("args"), K("asctime"), K("created"), K("exc_info"), K("exc_text"),
   K("filename"), K("funcName"), K("id"), K("levelname"), K("levelno"),
   K("lineno"), K("module"), K("msecs"), K("message"), K("msg"), K("name"),
   K("pathname"), K("process"), K("processName"), K("relativeCreated"),
   K("thread"), K("threadName")}

\* key.startswith("_")
StartsWithUnderscore(key) == Len(key) > 0 /\ key[1] = "_"

\* logging.getLevelName(levelno)
getLevelName(levelno) ==
  CASE levelno = 50 -> <<"CRITICAL">>
    [] levelno = 40 -> <<"ERROR">>
    [] levelno = 30 -> <<"WARNING">>
    [] levelno = 20 -> <<"INFO">>
    [] levelno = 10 -> <<"DEBUG">>
    [] OTHER -> <<"Level", ToString(levelno)>>

\* socket.getfqdn() and socket.gethostname() of the machine
FqdnName == <<"h1", ".", "example">>
HostName == <<"h1">>

\* BaseGELFHandler._resolve_host
_resolve_host(fqdn, localname) ==
  IF fqdn THEN Str(FqdnName)
  ELSE IF localname # NoneV THEN localname
  ELSE Str(HostName)

\* BaseGELFHandler._add_level_names
_add_level_names(gelf_dict, record) ==
  (K("level_name") :> Str(getLevelName(record.levelno))) @@ gelf_dict

\* BaseGELFHandler._set_custom_facility
_set_custom_facility(gelf_dict, facility_value, record) ==
  (K("facility") :> facility_value) @@ (Underscore(K("logger")) :> Str(record.name))
    @@ gelf_dict

\* BaseGELFHandler._add_full_message
_add_full_message(gelf_dict, record) ==
  LET formatted == IF record.exc_info THEN Str(<<"Traceback">>) ELSE NoneV
      full_message == IF Truthy(record.exc_text) THEN record.exc_text ELSE formatted
  IN IF Truthy(full_message) THEN (K("full_message") :> full_message) @@ gelf_dict
     ELSE gelf_dict

\* BaseGELFHandler._add_debugging_fields
_add_debugging_fields(gelf_dict, record) ==
  LET d == (K("file") :> Str(<<"app.py">>)) @@ (K("line") :> Num(7))
             @@ (Underscore(K("function")) :> Str(<<"main">>))
             @@ (Underscore(K("pid")) :> Num(1))
             @@ (Underscore(K("thread_name")) :> Str(<<"MainThread">>))
             @@ gelf_dict
  IN IF record.processName # NoneV
     THEN (Underscore(K("process_name")) :> record.processName) @@ d
     ELSE d

\* BaseGELFHandler._add_extra_fields
_add_extra_fields(gelf_dict, record) ==
  LET rd == RecordDict(record)
      keep == {key \in DOMAIN rd : key \notin skip_list /\ ~StartsWithUnderscore(key)}
  IN [k \in {Underscore(key) : key \in keep} |-> rd[Tail(k)]] @@ gelf_dict

\* mutant: the argument's key used as it is
_add_args_fields_NoPrefix(gelf_dict, record) ==
  IF ~record.args.isdict THEN gelf_dict ELSE record.args.d @@ gelf_dict

\* BaseGELFHandler._add_args_fields: record.args is [isdict, d]
_add_args_fields(gelf_dict, record) ==
  IF ~record.args.isdict THEN gelf_dict
  ELSE [k \in {Underscore(key) : key \in DOMAIN record.args.d} |->
          record.args.d[Tail(k)]] @@ gelf_dict

\* BaseGELFHandler._make_gelf_dict (no formatter set: record.getMessage())
_make_gelf_dict(self, record) ==
  LET base == (K("version") :> Str(<<"1.0">>))
                @@ (K("host") :> _resolve_host(self.fqdn, self.localname))
                @@ (K("short_message") :> Str(record.message))
                @@ (K("timestamp") :> Num(record.created))
                @@ (K("level") :> Num(SYSLOG_LEVELS(record.levelno)))
                @@ (K("facility") :>
                      IF Truthy(self.facility) THEN self.facility ELSE Str(record.name))
      d1 == _add_full_message(base, record)
      d2 == IF self.level_names THEN _add_level_names(d1, record) ELSE d1
      d3 == IF self.facility # NoneV
            THEN _set_custom_facility(d2, self.facility, record) ELSE d2
      d4 == IF self.debugging_fields THEN _add_debugging_fields(d3, record) ELSE d3
      d5 == IF self.extra_fields THEN _add_extra_fields(d4, record) ELSE d4
  IN IF self.args_fields THEN _add_args_fields(d5, record) ELSE d5

\* BaseGELFHandler.makePickle
makePickle(self, record) ==
  LET packed == _pack_gelf_dict(_make_gelf_dict(self, record))
  IN IF self.compress THEN zlib_compress(packed) ELSE packed

\* GELFTCPHandler.makePickle: the null terminator
GELFTCPHandler_makePickle(self, record) == makePickle(self, record) \o <<Nul>>

\* ------------------------------------------------------------ constructors
Unset == [t |-> "unset", v |-> <<>>]
NoChunker == [policy |-> "none", chunk_size |-> 0, compress |-> FALSE]
NoTls == [validate |-> FALSE, ca_certs |-> NoneV, certfile |-> NoneV,
          keyfile |-> NoneV]

Handler(kind, kw, compress) ==
  [kind |-> kind,
   debugging_fields |-> kw.debugging_fields, extra_fields |-> kw.extra_fields,
   args_fields |-> kw.args_fields, fqdn |-> kw.fqdn, localname |-> kw.localname,
   facility |-> kw.facility, level_names |-> kw.level_names, compress |-> compress,
   gelf_chunker |-> NoChunker, ca_certs |-> NoneV, reqs |-> "CERT_NONE",
   certfile |-> NoneV, keyfile |-> NoneV, headers |-> {}, sock |-> FALSE]

NoKw == [debugging_fields |-> FALSE, extra_fields |-> FALSE, args_fields |-> FALSE,
         fqdn |-> FALSE, localname |-> NoneV, facility |-> NoneV,
         level_names |-> FALSE, compress |-> Unset]
NoHandler == Handler("none", NoKw, FALSE)

\* what a constructor call did: error is the exception raised ("none": the
\* object exists), base_init and transport_init say whether
\* BaseGELFHandler.__init__ and the socket handler's __init__ completed
Constructed(error, base_init, transport_init, obj) ==
  [error |-> error, base_init |-> base_init, transport_init |-> transport_init,
   obj |-> IF error = NoRaise THEN obj ELSE NoHandler]

\* BaseGELFHandler.__init__: compress is True unless given
BaseGELFHandler__init__(kind, kw) ==
  IF kw.fqdn /\ Truthy(kw.localname)
  THEN Constructed("ValueError", FALSE, FALSE, NoHandler)
  ELSE Constructed(NoRaise, TRUE, FALSE,
                   Handler(kind, kw, IF kw.compress = Unset THEN TRUE
                                     ELSE Truthy(kw.compress)))

\* GELFUDPHandler.__init__
GELFUDPHandler__init__(gelf_chunker, kw) ==
  LET b == BaseGELFHandler__init__("udp", kw)
  IN IF b.error # NoRaise THEN b
     ELSE Constructed(NoRaise, TRUE, TRUE,
                      [b.obj EXCEPT !.gelf_chunker = gelf_chunker])

\* mutant: the caller's compress handed on as it is
GELFTCPHandler__init__PassCompress(kind, kw) ==
  LET b == BaseGELFHandler__init__(kind, kw)
  IN IF b.error # NoRaise THEN b
     ELSE Constructed(NoRaise, TRUE, TRUE, b.obj)

\* GELFTCPHandler.__init__: BaseGELFHandler.__init__(self, compress=False, **kwargs)
\* is a TypeError when kwargs holds compress
GELFTCPHandler__init__(kind, kw) ==
  IF kw.compress # Unset THEN Constructed("TypeError", FALSE, FALSE, NoHandler)
  ELSE LET b == BaseGELFHandler__init__(kind, [kw EXCEPT !.compress = Bool(FALSE)])
       IN IF b.error # NoRaise THEN b
          ELSE Constructed(NoRaise, TRUE, TRUE, b.obj)

\* mutant: the keyfile check is missing
GELFTLSHandler__init__NoKeyfileCheck(tls, kw) ==
  IF tls.validate /\ tls.ca_certs = NoneV
  THEN Constructed("ValueError", FALSE, FALSE, NoHandler)
  ELSE GELFTCPHandler__init__("tls", kw)

\* GELFTLSHandler.__init__
GELFTLSHandler__init__(tls, kw) ==
  IF tls.validate /\ tls.ca_certs = NoneV
  THEN Constructed("ValueError", FALSE, FALSE, NoHandler)
  ELSE IF tls.keyfile # NoneV /\ tls.certfile = NoneV
  THEN Constructed("ValueError", FALSE, FALSE, NoHandler)
  ELSE LET c == GELFTCPHandler__init__("tls", kw)
       IN IF c.error # NoRaise THEN c
          ELSE Constructed(NoRaise, TRUE, TRUE,
                 [c.obj EXCEPT !.ca_certs = tls.ca_certs,
                               !.reqs = IF tls.validate THEN "CERT_REQUIRED"
                                        ELSE "CERT_NONE",
                               !.certfile = tls.certfile,
                               !.keyfile = IF Truthy(tls.keyfile) THEN tls.keyfile
                                           ELSE tls.certfile])

\* GELFHTTPHandler.__init__: compress is a parameter of its own, True by default
GELFHTTPHandler__init__(kw) ==
  LET compress == IF kw.compress = Unset THEN TRUE ELSE Truthy(kw.compress)
      b == BaseGELFHandler__init__("http", [kw EXCEPT !.compress = Bool(compress)])
  IN IF b.error # NoRaise THEN b
     ELSE Constructed(NoRaise, TRUE, TRUE,
            [b.obj EXCEPT !.headers = IF compress THEN {"Content-Encoding"} ELSE {}])

\* ------------------------------------------------------------------- state
VARIABLES
  handler,    \* the handler object (NoHandler: none constructed)
  ctor,       \* the last constructor call: its arguments and what it did
  record,     \* the LogRecord of the last emit
  message,    \* the bytes last handed to send or chunk_message
  gelf_dict,  \* the document the last emit built
  trace,      \* what the last operation did, in order: warnings, chunks, sends
  raised,     \* the exception that came out of send or chunk_message
  op,         \* the last operation
  threads     \* the send calls in progress on handlers that share the chunker

vars == <<handler, ctor, record, message, gelf_dict, trace, raised, op, threads>>

Rec(name, levelno, msg, exc_info, exc_text, processName, args, extra) ==
  [name |-> name, levelno |-> levelno, message |-> msg, created |-> 1700,
   exc_info |-> exc_info, exc_text |-> exc_text, processName |-> processName,
   args |-> args, extra |-> extra]

NotDict == [isdict |-> FALSE, d |-> <<>>]
Dict(d) == [isdict |-> TRUE, d |-> d]
NoRecord == Rec(<<>>, 0, <<>>, FALSE, NoneV, NoneV, NotDict, <<>>)

Call(kind, kw, tls, chunker, c) ==
  [kind |-> kind, kw |-> kw, tls |-> tls, chunker |-> chunker, error |-> c.error,
   base_init |-> c.base_init, transport_init |-> c.transport_init]

\* ------------------------------------------------------------------ inputs
Flags == [debugging_fields : BOOLEAN, extra_fields : BOOLEAN,
          args_fields : BOOLEAN, level_names : BOOLEAN]

Kw(f, fqdn, localname, facility, compress) ==
  [debugging_fields |-> f.debugging_fields, extra_fields |-> f.extra_fields,
   args_fields |-> f.args_fields, fqdn |-> fqdn, localname |-> localname,
   facility |-> facility, level_names |-> f.level_names, compress |-> compress]

Chunkers ==
  {[policy |-> p, chunk_size |-> n, compress |-> FALSE] :
     p \in {"BaseGELFChunker", "GELFWarningChunker", "GELFTruncatingChunker"},
     n \in 1..MaxChunkSize}
  \cup {[policy |-> "GELFTruncatingChunker", chunk_size |-> n, compress |-> TRUE] :
          n \in 1..MaxChunkSize}

\* n characters: plain ones, or quotes that JSON escapes
Text(n, kind) ==
  [i \in 1..n |-> IF kind = "quotes" THEN Quote
                  ELSE IF i % 2 = 1 THEN "a" ELSE "b"]

\* n bytes that are no GELF document
RawBytes(n) == [i \in 1..n |-> "r" \o ToString(i % 3)]

Near(n) == {m \in (n - MaxSlack)..(n + MaxSlack) : m >= 0}

\* records whose packed length is near the ceiling: by a long message, of plain
\* characters or of quotes, or by a long logger name (which the truncated
\* replacement keeps); some carry an exception text (full_message)
ChunkRecords(h) ==
  LET r(name, text) == Rec(name, 20, text, FALSE, NoneV, Str(<<"MainProcess">>),
                           NotDict, <<>>)
      x(text) == Rec(<<"app">>, 10, text, TRUE, Str(<<"tb">>),
                     Str(<<"MainProcess">>), NotDict, <<>>)
      room == GELF_MAX_CHUNK_NUMBER * h.gelf_chunker.chunk_size
                - Len(makePickle(h, r(<<>>, <<>>)))
  IN {r(<<"app">>, Text(n, k)) :
        n \in Near(0) \cup Near(room - 1) \cup Near((room - 1) \div 2),
        k \in {"plain", "quotes"}}
     \cup {r(Text(n, "plain"), Text(m, k)) :
             n \in Near(room - 8), m \in {0, 2 * MaxSlack + 12},
             k \in {"plain", "quotes"}}
     \cup {x(Text(n, "plain")) : n \in Near(room - 1)}

\* byte strings near the empty message, one chunk and the ceiling
ChunkMessages(h) ==
  {RawBytes(n) : n \in Near(0) \cup Near(h.gelf_chunker.chunk_size)
                        \cup Near(GELF_MAX_CHUNK_NUMBER * h.gelf_chunker.chunk_size)}

ExtraNames == {K("user"), K("id"), Underscore(K("hid")), K("logger")}
ArgDicts ==
  {NotDict, Dict((K("k") :> Num(1))), Dict((K("id") :> Num(5))),
   Dict((K("id") :> Num(5)) @@ (K("k") :> Num(1))),
   Dict((K("logger") :> Str(<<"other">>)))}

NormRecords(h) ==
  {Rec(<<"app">>, s[1], <<"m">>, s[2], s[3], s[4], a,
       [k \in e |-> Str(<<"x">>)]) :
     s \in {<<20, FALSE, NoneV, Str(<<"MainProcess">>)>>,
            <<25, TRUE, NoneV, NoneV>>,
            <<40, FALSE, Str(<<"tb">>), Str(<<"MainProcess">>)>>},
     a \in ArgDicts, e \in SUBSET ExtraNames}

CtorRecords(h) ==
  {Rec(<<"app">>, 20, <<"m">>, FALSE, NoneV, Str(<<"MainProcess">>), NotDict, <<>>),
   Rec(<<"app">>, 40, <<"m">>, TRUE, NoneV, Str(<<"MainProcess">>), NotDict, <<>>),
   Rec(<<"app">>, 20, <<"m", Nul, Quote, "n">>, FALSE, NoneV,
       Str(<<"MainProcess">>), NotDict, <<>>)}

Localnames == {NoneV, Str(<<>>), Str(<<"myhost">>)}
CtorKwargs ==
  {Kw([debugging_fields |-> FALSE, extra_fields |-> FALSE, args_fields |-> FALSE,
       level_names |-> FALSE], fqdn, localname, NoneV, compress) :
     fqdn \in BOOLEAN, localname \in Localnames,
     compress \in {Unset, Bool(TRUE), Bool(FALSE)}}
Paths == {NoneV, Str(<<>>), Str(<<"pem">>)}
TlsArgs == [validate : BOOLEAN, ca_certs : Paths, certfile : Paths, keyfile : Paths]

\* ---------------------------------------------------- concurrent sends
\* Threads that call send on UDP handlers holding one chunker object (the
\* default argument gelf_chunker=GELFWarningChunker() is one object for all
\* handlers).  A thread's frame holds the locals of send, chunk_message and
\* _gen_gelf_chunks: s, message, total_chunks, message_id, the enumerate
\* counter, and what the thread's own socket was handed (out).
Threads == {"t1", "t2"}

IdleFrame ==
  [pc |-> "idle", s |-> <<>>, message |-> <<>>, message_id |-> 0,
   total_chunks |-> 0, sequence |-> 0, out |-> <<>>, raised |-> NoRaise]
NoThreads == [t \in Threads |-> IdleFrame]

\* messages of less than one chunk, one chunk, three chunks, and over the ceiling
ConcMessages(h) ==
  {RawBytes(n) : n \in {h.gelf_chunker.chunk_size - 1, h.gelf_chunker.chunk_size,
                        2 * h.gelf_chunker.chunk_size + 1,
                        GELF_MAX_CHUNK_NUMBER * h.gelf_chunker.chunk_size + 1}}

\* GELFUDPHandler.send up to the call of chunk_message
SendEnter(gelf_chunker, f, s) ==
  IF Len(s) < gelf_chunker.chunk_size
  THEN [f EXCEPT !.pc = "done", !.s = s, !.out = <<Datagram(s)>>]
  ELSE [f EXCEPT !.pc = "chunk_message", !.s = s, !.message = s]

Ended(f, events, exc) == [f EXCEPT !.pc = "done", !.out = events, !.raised = exc]

\* the overflow branch of the three chunk_message methods
Overflow(chunker, f, t) ==
  CASE chunker.policy = "BaseGELFChunker" -> Ended(f, <<>>, NoRaise)
    [] chunker.policy = "GELFWarningChunker" ->
         Ended(f, <<Warn("GELFChunkOverflowWarning")>>, NoRaise)
    [] OTHER ->
         IF t.raised = "GELFTruncationFailureWarning"
         THEN Ended(f, <<Warn("GELFChunkOverflowWarning"),
                         Warn("GELFTruncationFailureWarning")>>, NoRaise)
         ELSE IF t.raised # NoRaise
         THEN Ended(f, <<Warn("GELFChunkOverflowWarning")>>, t.raised)
         ELSE [f EXCEPT !.pc = "gen", !.message = t.packed,
                        !.out = <<Warn("GELFChunkOverflowWarning")>>]

\* chunk_message up to the call of _gen_gelf_chunks
ChunkMessageEnter(chunker, f) ==
  IF _message_chunk_number(chunker.chunk_size, f.message) > GELF_MAX_CHUNK_NUMBER
  THEN Overflow(chunker, f, gen_chunk_overflow_gelf_log(chunker, f.message))
  ELSE [f EXCEPT !.pc = "gen"]

\* mutant: the identifier kept where every thread's generator reads it
DrawId_Shared(frames, t, chunk_size, id) ==
  [u \in DOMAIN frames |->
     IF u = t
     THEN [frames[u] EXCEPT !.pc = "loop", !.message_id = id, !.sequence = 0,
             !.total_chunks = _message_chunk_number(chunk_size, frames[u].message)]
     ELSE [frames[u] EXCEPT !.message_id = id]]

\* _gen_gelf_chunks before its loop: total_chunks and message_id are locals of
\* the generator of thread t
DrawId(frames, t, chunk_size, id) ==
  [frames EXCEPT ![t] =
     [@ EXCEPT !.pc = "loop", !.message_id = id, !.sequence = 0,
               !.total_chunks =
                  _message_chunk_number(chunk_size, frames[t].message)]]

\* one turn of the loop of _gen_gelf_chunks and of send: the next slice is
\* encoded, yielded and handed to the socket
YieldNext(chunk_size, f) ==
  IF ~(ByteOk(f.sequence) /\ ByteOk(f.total_chunks))
  THEN [f EXCEPT !.pc = "done", !.raised = "struct.error"]
  ELSE [f EXCEPT
          !.out = Append(@, Datagram(_encode(
                    f.message_id, f.sequence, f.total_chunks,
                    SubSeq(f.message, f.sequence * chunk_size + 1,
                           Min((f.sequence + 1) * chunk_size, Len(f.message)))))),
          !.sequence = @ + 1]

ThreadStep(t, f) ==
  /\ threads' = [threads EXCEPT ![t] = f]
  /\ UNCHANGED <<handler, ctor, record, message, gelf_dict, trace, raised, op>>

\* thread t calls send(s)
SendCall(t) ==
  /\ threads[t].pc = "idle"
  /\ \E s \in ConcMessages(handler) :
       ThreadStep(t, SendEnter(handler.gelf_chunker, threads[t], s))

\* thread t enters chunk_message: the ceiling check and the overflow policy
CheckCeiling(t) ==
  /\ threads[t].pc = "chunk_message"
  /\ ThreadStep(t, ChunkMessageEnter(handler.gelf_chunker, threads[t]))

\* thread t starts the generator: random.randint
GenStart(t) ==
  /\ threads[t].pc = "gen"
  /\ \E id \in 0..MaxMessageId :
       threads' = DrawId(threads, t, handler.gelf_chunker.chunk_size, id)
  /\ UNCHANGED <<handler, ctor, record, message, gelf_dict, trace, raised, op>>

\* thread t takes the next chunk from the generator and sends it
YieldSend(t) ==
  /\ threads[t].pc = "loop"
  /\ threads[t].sequence * handler.gelf_chunker.chunk_size < Len(threads[t].message)
  /\ ThreadStep(t, YieldNext(handler.gelf_chunker.chunk_size, threads[t]))

\* the generator of thread t is exhausted: send returns
GenDone(t) ==
  /\ threads[t].pc = "loop"
  /\ threads[t].sequence * handler.gelf_chunker.chunk_size >= Len(threads[t].message)
  /\ ThreadStep(t, [threads[t] EXCEPT !.pc = "done"])

\* ----------------------------------------------------------------- actions
\* A run is one object's life: the constructor call, then one operation on the
\* object it returned.  No operation reads what an earlier one left behind (the
\* only field an operation writes is the handler's sock), so every operation is
\* explored from the constructed object.
Post(b) == [ev |-> "post", cat |-> "", data |-> b]

\* Handler.emit of each transport: makePickle, then send.  The socket handlers
\* create their socket on the first send; an exception out of send reaches
\* handleError.
Transport(self, s, message_id) ==
  CASE self.kind = "udp" -> GELFUDPHandler_send(self.gelf_chunker, s, message_id)
    [] self.kind = "http" -> Outcome(<<Post(s)>>, NoRaise)
    [] OTHER -> Outcome(<<Datagram(s)>>, NoRaise)

Pickle(self, r) ==
  IF self.kind \in {"tcp", "tls"} THEN GELFTCPHandler_makePickle(self, r)
  ELSE makePickle(self, r)

Emitted(r, s, out) ==
  /\ record' = r
  /\ message' = s
  /\ trace' = out.events
  /\ raised' = out.raised

\* the records a specification draws its events from
Records(inputs, h) ==
  CASE inputs = "chunk" -> ChunkRecords(h)
    [] inputs = "norm" -> NormRecords(h)
    [] OTHER -> CtorRecords(h)

Emit(inputs) ==
  /\ op = "construct"
  /\ handler.kind # "none"
  /\ \E r \in Records(inputs, handler), message_id \in 0..MaxMessageId :
       /\ Emitted(r, Pickle(handler, r),
                  Transport(handler, Pickle(handler, r), message_id))
       /\ gelf_dict' = _make_gelf_dict(handler, r)
  /\ handler' = [handler EXCEPT !.sock = @ \/ handler.kind # "http"]
  /\ op' = "emit"
  /\ UNCHANGED <<ctor, threads>>

Sent(s, out) ==
  /\ message' = s
  /\ trace' = out.events
  /\ raised' = out.raised

\* GELFUDPHandler.send(s) on bytes s
Send ==
  /\ op = "construct"
  /\ handler.kind = "udp"
  /\ \E s \in ChunkMessages(handler), message_id \in 0..MaxMessageId :
       Sent(s, GELFUDPHandler_send(handler.gelf_chunker, s, message_id))
  /\ handler' = [handler EXCEPT !.sock = TRUE]
  /\ record' = NoRecord
  /\ gelf_dict' = <<>>
  /\ op' = "send"
  /\ UNCHANGED <<ctor, threads>>

\* gelf_chunker.chunk_message(message), iterated to its end
ChunkMessage ==
  /\ op = "construct"
  /\ handler.kind = "udp"
  /\ \E m \in ChunkMessages(handler), message_id \in 0..MaxMessageId :
       Sent(m, chunk_message(handler.gelf_chunker, m, message_id))
  /\ record' = NoRecord
  /\ gelf_dict' = <<>>
  /\ op' = "chunk_message"
  /\ UNCHANGED <<handler, ctor, threads>>

Fresh(kind, kw, tls, chunker, c) ==
  /\ handler = c.obj
  /\ ctor = Call(kind, kw, tls, chunker, c)
  /\ record = NoRecord
  /\ message = <<>>
  /\ gelf_dict = <<>>
  /\ trace = <<>>
  /\ raised = NoRaise
  /\ threads = NoThreads

Construct(kind, kw, tls, chunker, c) ==
  /\ op = "init"
  /\ handler' = c.obj
  /\ ctor' = Call(kind, kw, tls, chunker, c)
  /\ record' = NoRecord
  /\ message' = <<>>
  /\ gelf_dict' = <<>>
  /\ trace' = <<>>
  /\ raised' = NoRaise
  /\ op' = "construct"
  /\ UNCHANGED threads

NewUDP ==
  \E kw \in CtorKwargs, ch \in Chunkers :
    Construct("udp", kw, NoTls, ch, GELFUDPHandler__init__(ch, kw))

NewTCP ==
  \E kw \in CtorKwargs :
    Construct("tcp", kw, NoTls, NoChunker, GELFTCPHandler__init__("tcp", kw))

NewTLS ==
  \E kw \in CtorKwargs, tls \in TlsArgs :
    Construct("tls", kw, tls, NoChunker, GELFTLSHandler__init__(tls, kw))

NewHTTP ==
  \E kw \in CtorKwargs :
    Construct("http", kw, NoTls, NoChunker, GELFHTTPHandler__init__(kw))

\* --------------------------------------------------------- specifications
NoFlags == [debugging_fields |-> FALSE, extra_fields |-> FALSE,
            args_fields |-> FALSE, level_names |-> FALSE]

\* the chunk codec: a UDP handler with any chunker, compressing or not
Init ==
  /\ \E ch \in Chunkers, compress \in BOOLEAN :
       LET kw == Kw(NoFlags, FALSE, NoneV, NoneV, Bool(compress))
       IN Fresh("udp", kw, NoTls, ch, GELFUDPHandler__init__(ch, kw))
  /\ op = "construct"

Next ==
  \/ Emit("chunk")
  \/ Send
  \/ ChunkMessage

Spec == Init /\ [][Next]_vars

\* the event normalizer: an HTTP handler with any flags and facility
Facilities == {NoneV, Str(<<>>), Str(<<"fac">>)}

InitNorm ==
  /\ \E f \in Flags, facility \in Facilities :
       LET kw == Kw(f, FALSE, NoneV, facility, Bool(FALSE))
       IN Fresh("http", kw, NoTls, NoChunker, GELFHTTPHandler__init__(kw))
  /\ op = "construct"

NextNorm == Emit("norm")

SpecNorm == InitNorm /\ [][NextNorm]_vars

\* the constructors: no handler yet
InitCtor ==
  /\ Fresh("none", NoKw, NoTls, NoChunker,
           Constructed(NoRaise, FALSE, FALSE, NoHandler))
  /\ op = "init"

NextCtor ==
  \/ NewUDP
  \/ NewTCP
  \/ NewTLS
  \/ NewHTTP
  \/ Emit("ctor")

SpecCtor == InitCtor /\ [][NextCtor]_vars

\* concurrent sends on UDP handlers that share one chunker, of any policy
InitConc ==
  /\ \E ch \in Chunkers :
       LET kw == Kw(NoFlags, FALSE, NoneV, NoneV, Bool(FALSE))
       IN Fresh("udp", kw, NoTls, ch, GELFUDPHandler__init__(ch, kw))
  /\ op = "construct"

NextConc ==
  \E t \in Threads :
    \/ SendCall(t)
    \/ CheckCeiling(t)
    \/ GenStart(t)
    \/ YieldSend(t)
    \/ GenDone(t)

SpecConc == InitConc /\ [][NextConc]_vars

\* ------------------------------------------------------------------ claims
\* Reading the last operation's trace.
CeilDiv(a, b) == (a + b - 1) \div b
ChunkSize == handler.gelf_chunker.chunk_size
Policy == handler.gelf_chunker.policy
\* the chunk count of the message handed over: ceil(L / S)
NeedChunks == CeilDiv(Len(message), ChunkSize)
\* the last operation handed its message to chunk_message
ThroughChunker ==
  \/ op = "chunk_message"
  \/ op \in {"send", "emit"} /\ handler.kind = "udp" /\ Len(message) >= ChunkSize
IsChunkEv(e) == e.ev \in {"chunk", "send"}
ByteToks == [n \in 0..255 |-> ToString(n)]
ByteVal(tok) ==
  IF \E n \in 0..255 : ByteToks[n] = tok
  THEN CHOOSE n \in 0..255 : ByteToks[n] = tok ELSE 0 - 1
Framed(b) == Len(b) >= ChunkHeaderLen /\ SubSeq(b, 1, 2) = ChunkMagic
IdOf(b) == SubSeq(b, 3, 10)
SeqOf(b) == ByteVal(b[11])
TotalOf(b) == ByteVal(b[12])
PayloadOf(b) == SubSeq(b, ChunkHeaderLen + 1, Len(b))
\* the payloads of the trace's events lo..hi, concatenated in that order
RECURSIVE JoinPayloads(_, _)
JoinPayloads(lo, hi) ==
  IF lo > hi THEN <<>>
  ELSE IF lo = hi THEN PayloadOf(trace[lo].data)
  ELSE LET mid == (lo + hi) \div 2
       IN JoinPayloads(lo, mid) \o JoinPayloads(mid + 1, hi)
OverflowWarning == Warn("GELFChunkOverflowWarning")
FailureWarning == Warn("GELFTruncationFailureWarning")

\* C1: under each of the three policies every chunk that chunk_message yields
\* carries a total between 1 and 128 and a sequence index below that total, and
\* the chunks of a message that needs more than 128 chunks never carry that
\* message as it is.
C1_ChunksWithinCeiling ==
  ThroughChunker =>
    /\ \A i \in DOMAIN trace :
         IsChunkEv(trace[i]) =>
           /\ Framed(trace[i].data)
           /\ TotalOf(trace[i].data) \in 1..GELF_MAX_CHUNK_NUMBER
           /\ SeqOf(trace[i].data) \in 0..(TotalOf(trace[i].data) - 1)
    /\ NeedChunks > GELF_MAX_CHUNK_NUMBER => JoinPayloads(1, Len(trace)) # message

\* C1 witness: a message over the ceiling went through the truncating chunker and
\* chunks with total 128 came out.
C1_Witness ==
  /\ ThroughChunker
  /\ Policy = "GELFTruncatingChunker"
  /\ NeedChunks > GELF_MAX_CHUNK_NUMBER
  /\ Len(trace) = GELF_MAX_CHUNK_NUMBER + 1
  /\ TotalOf(trace[2].data) = GELF_MAX_CHUNK_NUMBER

\* C2: a message of n = ceil(L/S) <= 128 chunks comes out as exactly n chunks, in
\* order, with sequence 0..n-1, one identifier and total n in every chunk, every
\* payload at most S long, and the payloads concatenated are the message.
C2_ExactChunks ==
  (ThroughChunker /\ NeedChunks <= GELF_MAX_CHUNK_NUMBER) =>
    /\ raised = NoRaise
    /\ Len(trace) = NeedChunks
    /\ \A i \in DOMAIN trace :
         /\ IsChunkEv(trace[i])
         /\ Framed(trace[i].data)
         /\ trace[i].data[11] = ToString(i - 1)
         /\ trace[i].data[12] = ToString(NeedChunks)
         /\ IdOf(trace[i].data) = IdOf(trace[1].data)
         /\ Len(PayloadOf(trace[i].data)) <= ChunkSize
    /\ JoinPayloads(1, Len(trace)) = message

\* C2 witness: a message of exactly 128 chunks, and 128 chunks out.
C2_Witness ==
  /\ ThroughChunker
  /\ NeedChunks = GELF_MAX_CHUNK_NUMBER
  /\ Len(trace) = GELF_MAX_CHUNK_NUMBER
  /\ Len(message) > GELF_MAX_CHUNK_NUMBER

\* C3: for a message over the ceiling the silent-drop policy yields nothing and
\* warns of nothing; the warn-and-drop policy yields nothing and issues exactly
\* one GELFChunkOverflowWarning.
C3_DropPolicies ==
  (ThroughChunker /\ NeedChunks > GELF_MAX_CHUNK_NUMBER) =>
    /\ Policy = "BaseGELFChunker" => trace = <<>> /\ raised = NoRaise
    /\ Policy = "GELFWarningChunker" => trace = <<OverflowWarning>> /\ raised = NoRaise

\* C3 witness: the warn-and-drop chunker dropped a message over the ceiling.
C3_Witness ==
  /\ ThroughChunker
  /\ NeedChunks > GELF_MAX_CHUNK_NUMBER
  /\ Policy = "GELFWarningChunker"
  /\ trace = <<OverflowWarning>>

\* C4 (a): after the overflow warning come the chunks of a replacement of at
\* most 128 chunks, and nothing else
ReplacementEmitted ==
  /\ Len(trace) \in 2..(GELF_MAX_CHUNK_NUMBER + 1)
  /\ \A i \in 2..Len(trace) :
       /\ IsChunkEv(trace[i])
       /\ trace[i].data[12] = ToString(Len(trace) - 1)
\* C4 (b): after the overflow warning comes the failure warning, and nothing else
FailureDropped == trace = <<OverflowWarning, FailureWarning>>

\* C4: under warn-and-truncate a message over the ceiling first draws the
\* overflow warning; then either the chunks of a truncated replacement of at most
\* 128 chunks come out and no failure warning, or the failure warning is issued
\* and no chunk comes out.
C4_TruncateOutcomes ==
  (ThroughChunker /\ Policy = "GELFTruncatingChunker"
     /\ NeedChunks > GELF_MAX_CHUNK_NUMBER) =>
    /\ Len(trace) >= 1
    /\ trace[1] = OverflowWarning
    /\ ReplacementEmitted \/ FailureDropped

\* C5: the UDP sender sends a message of length <= chunk_size as one datagram
\* holding exactly the packed bytes, and only a longer message as framed chunks.
C5_UnframedWhenFits ==
  (op \in {"send", "emit"} /\ handler.kind = "udp") =>
    IF Len(message) <= ChunkSize
    THEN trace = <<Datagram(message)>>
    ELSE \A i \in DOMAIN trace : trace[i].ev = "send" => Framed(trace[i].data)

\* the fixed GELF fields
FixedGelfFields == {K("version"), K("host"), K("short_message"), K("full_message"),
                    K("timestamp"), K("level"), K("facility")}
\* the optional fields the normalizer emits without an underscore
UnprefixedOptionalFields == {K("file"), K("line"), K("level_name")}

\* C6: every key of the document other than the fixed GELF fields begins with an
\* underscore, whatever the flags.
C6_UnderscoreKeys ==
  op = "emit" =>
    \A k \in DOMAIN gelf_dict : k \in FixedGelfFields \/ StartsWithUnderscore(k)

\* C6 amended: every key of the document other than the fixed GELF fields and
\* the unprefixed optional fields file, line (debugging_fields) and level_name
\* (level_names) begins with an underscore, whatever the flags.
C6_UnderscoreKeysAmended ==
  op = "emit" =>
    \A k \in DOMAIN gelf_dict :
      k \in FixedGelfFields \cup UnprefixedOptionalFields \/ StartsWithUnderscore(k)

\* C6 witness: all flags on, an extra attribute and a mapping argument emitted.
C6_Witness ==
  /\ op = "emit"
  /\ handler.debugging_fields /\ handler.level_names
  /\ handler.extra_fields /\ handler.args_fields
  /\ K("user") \in DOMAIN record.extra
  /\ record.args.isdict
  /\ {K("file"), K("level_name"), Underscore(K("user")), Underscore(K("k"))}
       \subseteq DOMAIN gelf_dict

\* C7: the document never holds the reserved field id, as id or as _id.
C7_NoReservedId ==
  op = "emit" =>
    K("id") \notin DOMAIN gelf_dict /\ Underscore(K("id")) \notin DOMAIN gelf_dict

\* the fixed exclusion list: the standard LogRecord attributes and the
\* bookkeeping names
ExclusionList == LogRecordAttrs \cup {K("asctime"), K("message"), K("id")}

\* C8: with extra_fields on, an attribute of the event is emitted as _<name> if
\* and only if it is not in the exclusion list and does not begin with an
\* underscore; an event without extra attributes gets no field from this step.
\* (Read on documents no other step adds underscore fields of such names to:
\* args_fields off, no facility configured.)
C8_ExtraFieldsExact ==
  (op = "emit" /\ handler.extra_fields /\ ~handler.args_fields
     /\ handler.facility = NoneV) =>
    \A key \in DOMAIN RecordDict(record) :
      Underscore(key) \in DOMAIN gelf_dict
        <=> (key \notin ExclusionList /\ ~StartsWithUnderscore(key))

\* the host the configuration asks for: fqdn, else localname, else the hostname
HonoredHost ==
  IF handler.fqdn THEN Str(FqdnName)
  ELSE IF handler.localname # NoneV THEN handler.localname
  ELSE Str(HostName)

\* C9: a constructor called with fqdn true and a localname that is not None, the
\* empty string included, fails, and no handler exists; a handler that exists
\* honors exactly one host source.
C9_HostConfig ==
  /\ (ctor.kind # "none" /\ ctor.kw.fqdn /\ ctor.kw.localname # NoneV) =>
       ctor.error # NoRaise /\ handler = NoHandler /\ op # "emit"
  /\ op = "emit" => gelf_dict[K("host")] = HonoredHost

\* the two TLS configurations the constructor rejects
BadTls ==
  /\ ctor.kind = "tls"
  /\ \/ ctor.tls.validate /\ ctor.tls.ca_certs = NoneV
     \/ ctor.tls.keyfile # NoneV /\ ctor.tls.certfile = NoneV

\* C10: a TLS handler constructed with validate and no CA bundle path, or with a
\* keyfile and no certfile, fails with ValueError before the TCP handler is
\* initialised and before any socket exists, and no emit ever runs on it.
C10_TlsConfig ==
  BadTls =>
    /\ ctor.error = "ValueError"
    /\ ~ctor.base_init /\ ~ctor.transport_init
    /\ handler = NoHandler
    /\ op # "emit" /\ trace = <<>>

\* C10 witness: the constructor rejected a keyfile given without a certfile.
C10_Witness ==
  /\ BadTls
  /\ ~ctor.tls.validate
  /\ op = "construct"
  /\ ctor.error = "ValueError"

\* C11: every frame of the TCP and TLS handlers is the packed JSON of the
\* document, uncompressed, followed by one null byte, and holds no other null
\* byte; a constructor call that names compress is rejected, and no handler of
\* this transport compresses.
C11_TcpFrame ==
  /\ (ctor.kind \in {"tcp", "tls"} /\ ctor.kw.compress # Unset) =>
       ctor.error # NoRaise /\ handler = NoHandler
  /\ handler.kind \in {"tcp", "tls"} => ~handler.compress
  /\ (op = "emit" /\ handler.kind \in {"tcp", "tls"}) =>
       /\ raised = NoRaise
       /\ trace = <<Datagram(message)>>
       /\ message = _pack_gelf_dict(gelf_dict) \o <<Nul>>
       /\ message[1] = "{"
       /\ \A i \in 1..(Len(message) - 1) : message[i] # Nul
       /\ json_loads(SubSeq(message, 1, Len(message) - 1)).ok
       /\ json_loads(SubSeq(message, 1, Len(message) - 1)).d[K("short_message")]
            = Str(record.message)

\* C11 witness: a TLS handler framed an event whose text holds U+0000.
C11_Witness ==
  /\ op = "emit"
  /\ handler.kind = "tls"
  /\ Nul \in Range(record.message)
  /\ Len(trace) = 1
  /\ trace[1].data[Len(trace[1].data)] = Nul

\* an extra attribute or a mapping argument of the event is named logger
LoggerNamedField ==
  \/ handler.extra_fields /\ K("logger") \in DOMAIN record.extra
  \/ handler.args_fields /\ record.args.isdict /\ K("logger") \in DOMAIN record.args.d

\* C12: without a configured facility the document's facility is the event's
\* logger name and the facility step adds no _logger; with a configured facility
\* string the document's facility is that string and _logger is the event's
\* logger name, whatever the flags, attribute names and argument names.
C12_Facility ==
  op = "emit" =>
    IF handler.facility = NoneV
    THEN /\ gelf_dict[K("facility")] = Str(record.name)
         /\ Underscore(K("logger")) \in DOMAIN gelf_dict => LoggerNamedField
    ELSE /\ gelf_dict[K("facility")] = handler.facility
         /\ Underscore(K("logger")) \in DOMAIN gelf_dict
         /\ gelf_dict[Underscore(K("logger"))] = Str(record.name)

\* C13: whatever the policy, the chunker's configuration and the message,
\* chunk_message ends by yielding chunks or by dropping the message after its
\* warnings; no exception leaves it.
C13_NoPropagation ==
  ThroughChunker =>
    /\ raised = NoRaise
    /\ \/ \A i \in DOMAIN trace : IsChunkEv(trace[i])
       \/ /\ Len(trace) >= 1
          /\ trace[1].ev = "warn"

\* the last emit went over the ceiling under warn-and-truncate and the chunks of
\* a replacement came out
TruncationSucceeded ==
  /\ op = "emit"
  /\ ThroughChunker
  /\ Policy = "GELFTruncatingChunker"
  /\ NeedChunks > GELF_MAX_CHUNK_NUMBER
  /\ raised = NoRaise
  /\ ReplacementEmitted

\* the bytes the replacement's chunks carry, and the document they hold
ReplacementBytes == JoinPayloads(2, Len(trace))
Unpacked(b) ==
  json_loads(IF handler.gelf_chunker.compress THEN zlib_decompress(b).val ELSE b)
ReplacementDoc == Unpacked(ReplacementBytes)

\* the envelope: the replacement's fields with an empty short_message, and the
\* chunks left beside it
Envelope ==
  [k \in {K("version"), K("host"), K("short_message"), K("timestamp"), K("level"),
          K("facility"), Underscore(K("chunk_overflow"))} |->
     CASE k = K("short_message") -> Str(<<>>)
       [] k = K("level") -> Num(3)
       [] k = Underscore(K("chunk_overflow")) -> Bool(TRUE)
       [] OTHER -> gelf_dict[k]]
EnvelopeChunks == CeilDiv(Len(TruncPack(handler.gelf_chunker, Envelope)), ChunkSize)
EnvelopeFree == GELF_MAX_CHUNK_NUMBER - EnvelopeChunks

IsPrefix(p, s) == Len(p) <= Len(s) /\ p = SubSeq(s, 1, Len(p))

ReplacementIs(d) ==
  /\ DOMAIN d = DOMAIN Envelope
  /\ \A k \in {K("version"), K("host"), K("timestamp"), K("facility")} :
       d[k] = gelf_dict[k]
  /\ d[K("level")] = Num(3)
  /\ d[Underscore(K("chunk_overflow"))] = Str(<<"True">>)
  /\ K("full_message") \notin DOMAIN d
  /\ d[K("short_message")].t = "str"
  /\ IsPrefix(d[K("short_message")].v, record.message)
  /\ Len(d[K("short_message")].v) <= ChunkSize * EnvelopeFree

\* C14: the document of a successful replacement has exactly the keys version,
\* host, short_message, timestamp, level, facility and _chunk_overflow; version,
\* host, timestamp and facility are the original's, level is 3, _chunk_overflow
\* is True (which the packer writes as the string "True"), full_message and all
\* other fields are gone, and short_message is a prefix of the original's of at
\* most chunk_size * (128 - chunks of the envelope) characters.
C14_ReplacementDocument ==
  TruncationSucceeded => ReplacementDoc.ok /\ ReplacementIs(ReplacementDoc.d)

\* C14 witness: an event of another level, carrying a full_message, was replaced
\* by a document with a shortened, non-empty short_message.
C14_Witness ==
  /\ TruncationSucceeded
  /\ K("full_message") \in DOMAIN gelf_dict
  /\ gelf_dict[K("level")] # Num(3)
  /\ ReplacementDoc.ok
  /\ Len(ReplacementDoc.d[K("short_message")].v) \in 1..(Len(record.message) - 1)

\* what gen_chunk_overflow_gelf_log did with the message of the last emit
LoopRun == gen_chunk_overflow_gelf_log(handler.gelf_chunker, message)
\* the last emit went over the ceiling under warn-and-truncate and the retry loop
\* was reached
LoopReached ==
  /\ op = "emit"
  /\ ThroughChunker
  /\ Policy = "GELFTruncatingChunker"
  /\ NeedChunks > GELF_MAX_CHUNK_NUMBER
  /\ raised = NoRaise

\* the candidate of the k-th attempt: the first one is the original
\* short_message cut to chunk_size * f characters, each later one is chunk_size
\* characters shorter, down to empty
Candidate(k) ==
  SubSeq(record.message, 1,
         Max(0, Min(Len(record.message), ChunkSize * EnvelopeFree)
                  - (k - 1) * ChunkSize))
\* the envelope packed with candidate c needs at most 128 chunks
Fits(c) ==
  CeilDiv(Len(TruncPack(handler.gelf_chunker,
                        (K("short_message") :> Str(c)) @@ Envelope)),
          ChunkSize) <= GELF_MAX_CHUNK_NUMBER

LoopIs(t) ==
  /\ t.raised \in {NoRaise, "GELFTruncationFailureWarning"}
  /\ t.free = EnvelopeFree
  /\ t.attempts <= Max(0, EnvelopeFree + 1)
  /\ \A k \in 1..t.attempts :
       /\ Len(Candidate(k)) <= Len(Candidate(Max(1, k - 1)))
       /\ (k < t.attempts \/ t.raised # NoRaise) => ~Fits(Candidate(k))
  /\ t.raised = NoRaise =>
       /\ t.attempts >= 1
       /\ t.short = Candidate(t.attempts)
       /\ Fits(t.short)
       /\ ReplacementEmitted
       /\ ReplacementBytes = t.packed
  /\ t.raised # NoRaise =>
       /\ t.attempts = Max(0, EnvelopeFree + 1)
       /\ FailureDropped

\* C15: the retry loop ends; with f the free-chunk estimate it packs at most f + 1
\* times when f >= 0 and never when f < 0; the k-th candidate is the original
\* short_message cut to chunk_size * f characters less (k - 1) * chunk_size, never
\* longer than the one before; the loop returns the first candidate that fits in
\* 128 chunks and fails only after all f + 1 candidates did not fit.
C15_LoopBounded == LoopReached => LoopIs(LoopRun)

\* C15 witness: the loop returned a non-empty candidate at its third attempt or
\* later, before its last.
C15_Witness ==
  /\ LoopReached
  /\ LoopRun.raised = NoRaise
  /\ LoopRun.attempts \in 3..EnvelopeFree
  /\ Len(LoopRun.short) > 0

\* C16: warn-and-truncate recovery ends in the truncation-failure warning and a
\* drop if and only if the envelope, packed with an empty short_message, needs
\* more than 128 chunks by itself; when the envelope fits, the chunks of a
\* replacement come out whatever the original short_message was.
C16_FailureIffEnvelopeOverflows ==
  LoopReached =>
    IF EnvelopeChunks > GELF_MAX_CHUNK_NUMBER
    THEN FailureDropped
    ELSE /\ ReplacementEmitted
         /\ \A i \in DOMAIN trace : trace[i] # FailureWarning
         /\ ReplacementDoc.ok

\* C16 witness: the envelope fitted and recovery succeeded only on the last
\* attempt, with the short_message emptied.
C16_Witness ==
  /\ LoopReached
  /\ EnvelopeFree >= 1
  /\ ReplacementEmitted
  /\ ReplacementDoc.ok
  /\ ReplacementDoc.d[K("short_message")] = Str(<<>>)
  /\ Len(record.message) > 0
  /\ ~Fits(Candidate(EnvelopeFree))

\* C16 second case: the envelope alone was over the ceiling and the message was
\* dropped after both warnings.
EnvelopeOverflowDropped ==
  /\ LoopReached
  /\ EnvelopeChunks > GELF_MAX_CHUNK_NUMBER
  /\ FailureDropped

\* what send yields for the message of frame f when it runs alone, with the
\* identifier f drew
Alone(f) == GELFUDPHandler_send(handler.gelf_chunker, f.s, f.message_id)
ChunksOf(events) == SelectSeq(events, IsChunkEv)

InOrder(f, sent) ==
  \A i \in DOMAIN sent :
    /\ Framed(sent[i].data)
    /\ sent[i].data[11] = ToString(i - 1)
    /\ IdOf(sent[i].data) = PackBytes(f.message_id, 8)

FrameIsolated(f) ==
  /\ f.pc = "done" => f.out = Alone(f).events /\ f.raised = Alone(f).raised
  /\ f.pc = "loop" => IsPrefix(f.out, Alone(f).events)
  /\ Len(f.s) >= ChunkSize => InOrder(f, ChunksOf(f.out))

\* C17: under every interleaving of sends through one shared chunker, each
\* thread's socket is handed its message's chunks in sequence order from 0, none
\* skipped or repeated, all with the identifier drawn for that message; what it
\* was handed is what the message yields when sent alone with that identifier;
\* and the chunker's configuration stays as constructed.
C17_NoSharedState ==
  /\ handler.gelf_chunker = ctor.chunker
  /\ \A t \in Threads : FrameIsolated(threads[t])

\* C17 witness: two sends of three chunks each are interleaved, with different
\* identifiers, and one of them has finished.
C17_Witness ==
  /\ threads["t1"].pc = "done"
  /\ threads["t2"].pc = "loop"
  /\ Len(ChunksOf(threads["t1"].out)) = 3
  /\ Len(ChunksOf(threads["t2"].out)) = 2
  /\ threads["t1"].message_id # threads["t2"].message_id

====
